---- MODULE Spec2Model ----
(***************************************************************************)
(* Model of the TTTTengine 4x4x4 tic-tac-toe engine: the engine globals of *)
(* TTTT.c, the exported wrappers of TTTTapi.c, one action per operation.   *)
(***************************************************************************)
EXTENDS Integers, Sequences, FiniteSets, TLC

\* ------------------------------------------------------------------------
\* Program constants
\* ------------------------------------------------------------------------
TTTT_WINPATHSMAX == 7
TTTT_WEIGHT_MATRIX_SIZE == 5
TTTT_WIN_SIZE == 4
TTTT_BOARD_POSITIONS == 64
TTTT_WINNING_PATHS_COUNT == 76
TTTT_VERY_BIG_BOARDVALUE == 999999

kXS_NOBODY_PLAYER == 0
kXS_MACHINE_PLAYER == 1
kXS_HUMAN_PLAYER == 2
kXS_UNDEFINED_MOVE == -1

kTTTT_NoError == 0
kTTTT_InvalidMove == -1
kTTTT_InvalidArgument == -2
kTTTT_InvalidArgumentOutOfRange == -3

\* ------------------------------------------------------------------------
\* Bounds of the exploration
\* ------------------------------------------------------------------------
\* the calls explored between two calls of initialize while the game is
\* undecided: boards set, moves accepted, evaluations, weight matrices
\* installed and best-move queries (a decided game is asked for a best
\* move once more)
MaxCalls == 2
\* the values arc4random() returns are 0 .. NumRandomInputs - 1
NumRandomInputs == 2

Cells == 0 .. (TTTT_BOARD_POSITIONS - 1)
Paths == 0 .. (TTTT_WINNING_PATHS_COUNT - 1)
Slots == 0 .. (TTTT_WINPATHSMAX - 1)
Players == {kXS_NOBODY_PLAYER, kXS_MACHINE_PLAYER, kXS_HUMAN_PLAYER}

\* ------------------------------------------------------------------------
\* Static tables
\* ------------------------------------------------------------------------
\* xs_weighttab default_weights; row = human pieces, column = machine pieces
default_weights ==
  << <<0, -2, -4, -8, -16>>,
     <<2, 0, 0, 0, 0>>,
     <<4, 0, 1, 0, 0>>,
     <<8, 0, 0, 0, 0>>,
     <<16, 0, 0, 0, 0>> >>

\* xs_winstable the_wins_path_ids_table; row i+1 is cell i, -1 is "no line"
the_wins_path_ids_table ==
  <<
    <<0,4,8,40,56,60,64>>,
    <<0,5,-1,41,-1,-1,68>>,
    <<0,6,-1,42,-1,-1,69>>,
    <<0,7,9,43,57,61,65>>,
    <<1,4,-1,44,-1,-1,70>>,
    <<1,5,8,45,-1,-1,-1>>,
    <<1,6,9,46,-1,-1,-1>>,
    <<1,7,-1,47,-1,-1,72>>,
    <<2,4,-1,48,-1,-1,71>>,
    <<2,5,9,49,-1,-1,-1>>,
    <<2,6,8,50,-1,-1,-1>>,
    <<2,7,-1,51,-1,-1,73>>,
    <<3,4,9,52,58,62,66>>,
    <<3,5,-1,53,-1,-1,74>>,
    <<3,6,-1,54,-1,-1,75>>,
    <<3,7,8,55,59,63,67>>,
    <<10,14,18,40,-1,-1,-1>>,
    <<10,15,-1,41,56,-1,-1>>,
    <<10,16,-1,42,57,-1,-1>>,
    <<10,17,19,43,-1,-1,-1>>,
    <<11,14,-1,44,60,-1,-1>>,
    <<11,15,18,45,64,68,70>>,
    <<11,16,19,46,65,69,72>>,
    <<11,17,-1,47,61,-1,-1>>,
    <<12,14,-1,48,62,-1,-1>>,
    <<12,15,19,49,66,71,74>>,
    <<12,16,18,50,67,73,75>>,
    <<12,17,-1,51,63,-1,-1>>,
    <<13,14,19,52,-1,-1,-1>>,
    <<13,15,-1,53,58,-1,-1>>,
    <<13,16,-1,54,59,-1,-1>>,
    <<13,17,18,55,-1,-1,-1>>,
    <<20,24,28,40,-1,-1,-1>>,
    <<20,25,-1,41,57,-1,-1>>,
    <<20,26,-1,42,56,-1,-1>>,
    <<20,27,29,43,-1,-1,-1>>,
    <<21,24,-1,44,62,-1,-1>>,
    <<21,25,28,45,67,72,74>>,
    <<21,26,29,46,66,70,75>>,
    <<21,27,-1,47,63,-1,-1>>,
    <<22,24,-1,48,60,-1,-1>>,
    <<22,25,29,49,65,68,73>>,
    <<22,26,28,50,64,69,71>>,
    <<22,27,-1,51,61,-1,-1>>,
    <<23,24,29,52,-1,-1,-1>>,
    <<23,25,-1,53,59,-1,-1>>,
    <<23,26,-1,54,58,-1,-1>>,
    <<23,27,28,55,-1,-1,-1>>,
    <<30,34,38,40,57,62,67>>,
    <<30,35,-1,41,-1,-1,74>>,
    <<30,36,-1,42,-1,-1,75>>,
    <<30,37,39,43,56,63,66>>,
    <<31,34,-1,44,-1,-1,72>>,
    <<31,35,38,45,-1,-1,-1>>,
    <<31,36,39,46,-1,-1,-1>>,
    <<31,37,-1,47,-1,-1,70>>,
    <<32,34,-1,48,-1,-1,73>>,
    <<32,35,39,49,-1,-1,-1>>,
    <<32,36,38,50,-1,-1,-1>>,
    <<32,37,-1,51,-1,-1,71>>,
    <<33,34,39,52,59,60,65>>,
    <<33,35,-1,53,-1,-1,68>>,
    <<33,36,-1,54,-1,-1,69>>,
    <<33,37,38,55,58,61,64>>
  >>

\* the table with one entry mistyped: the second slot of cell 0 holds 17
\* where the source has 16
WinsPathIdTypo(i, k) ==
  IF i = 0 /\ k = 1 THEN 17 ELSE the_wins_path_ids_table[i + 1][k + 1]

\* the_wins_path_ids_table[i][k] with the 0-based indices of the C code
WinsPathId(i, k) == the_wins_path_ids_table[i + 1][k + 1]

\* ------------------------------------------------------------------------
\* Argument values the callers pass
\* ------------------------------------------------------------------------
\* cell arguments of humanmove / undomove: two cells of the board and the
\* first index past its end
CellInputs == {3, 0, TTTT_BOARD_POSITIONS}

\* a 64-character board string: the given characters, then '.' up to 64
Pad(prefix) ==
  [n \in 1 .. TTTT_BOARD_POSITIONS |->
     IF n <= Len(prefix) THEN prefix[n] ELSE "."]

\* board strings handed to TTTT_SetBoard / TTTT_EvaluateBoardValue; the
\* fourth has a character that is no marker, the fifth a complete line of
\* each player, the sixth 32 pieces of each player and no complete line
BoardStrings ==
  << Pad(<<"X", "X", "X", ".", "O", "O", "O">>),
     Pad(<<"O", "O", "O", "O">>),
     Pad(<<>>),
     Pad(<<"?">>),
     Pad(<<".", ".", ".", ".", "X", "X", "X", "X", "O", "O", "O", "O">>),
     Pad(<< "X", "X", "X", "O", "X", "O", "O", "X", "O", "X", "X", "X", "X", "X", "X", "O",
           "O", "O", "X", "O", "O", "X", "O", "O", "X", "O", "X", "O", "X", "X", "O", "X",
           "O", "X", "O", "X", "X", "X", "O", "X", "X", "O", "O", "X", "O", "O", "X", "O",
           "O", "X", "O", "X", "O", "O", "X", "O", "O", "O", "X", "X", "X", "O", "O", "O" >>) >>

\* the strings with an empty cell
StringInputs == 1 .. (Len(BoardStrings) - 1)

\* the empty board and the board without an empty cell
FullBoardInputs == {3, Len(BoardStrings)}

\* a weight matrix that differs from the default one in every sum
test_weights ==
  << <<3, -1, -5, -9, -20>>,
     <<1, 2, 0, -3, 0>>,
     <<5, 0, 4, 0, 0>>,
     <<7, 6, 0, 0, 0>>,
     <<30, 0, 0, 0, 0>> >>

\* the 25 integers of the command line option -w "0 1 2 ... 24"
WeightsArgument == [k \in 1 .. 25 |-> k - 1]

\* set_weightsmatrix of main.c: new_weights as its 25 assignments fill it
\* from the integers r (r1c1 is r[1], ..., r5c5 is r[25])
set_weightsmatrix(r) ==
  << << r[1], r[2], r[3], r[4], r[5] >>,
     << r[6], r[7], r[8], r[9], r[15] >>,
     << r[11], r[12], r[13], r[14], r[15] >>,
     << r[16], r[17], r[18], r[19], r[20] >>,
     << r[21], r[22], r[23], r[24], r[25] >> >>

\* a weight matrix under which every board scores above
\* TTTT_VERY_BIG_BOARDVALUE: 76 lines of 20000 each
heavy_weights ==
  [i \in 1 .. TTTT_WEIGHT_MATRIX_SIZE |->
     [j \in 1 .. TTTT_WEIGHT_MATRIX_SIZE |-> 20000]]

\* matrices handed to TTTT_SetHeuristicWeights; the third one is
\* new_weights of main.c
WeightChoices ==
  << default_weights, test_weights, set_weightsmatrix(WeightsArgument),
     heavy_weights >>

\* the matrices whose scores stay below TTTT_VERY_BIG_BOARDVALUE
WeightInputs == 1 .. (Len(WeightChoices) - 1)

\* the default matrix and the heavy one
HeavyWeightInputs == {1, Len(WeightChoices)}

\* values of arc4random()
RandomInputs == 0 .. (NumRandomInputs - 1)

\* player arguments of TTTT_GetBestMove
PlayerInputs == {kXS_MACHINE_PLAYER, kXS_HUMAN_PLAYER}

\* ------------------------------------------------------------------------
\* Engine state (the globals of TTTT.c) and what the last call returned
\* ------------------------------------------------------------------------
VARIABLES
  the_board,             \* xs_gameboard: cell -> player
  the_winner_is,         \* xs_player
  the_winpath,           \* xs_winpath: 4 cell indices
  the_path_counts_mac,   \* xs_pathcount: line id -> machine pieces tallied
  the_path_counts_human, \* xs_pathcount: line id -> human pieces tallied
  the_weights,           \* xs_weighttab
  randomized,            \* bool
  firstpass_stack,       \* *st: sequence of played moves, top is the last
  bestmoves_stack,       \* *bm
  op,                    \* the call whose result the caller holds, or "idle"
  arg,                   \* its argument (cell, input index, player), or -1
  ret,                   \* the value it returned or stored for the caller
  status,                \* the TTTT_Return of the API wrapper
  fault,                 \* undefined behaviour met by the last operation
  calls                  \* calls counted against MaxCalls since initialize

vars == << the_board, the_winner_is, the_winpath, the_path_counts_mac,
           the_path_counts_human, the_weights, randomized, firstpass_stack,
           bestmoves_stack, op, arg, ret, status, fault, calls >>

\* ------------------------------------------------------------------------
\* Board scoring  (TTTT.c, BOARD SCORING)
\* ------------------------------------------------------------------------
\* clearpathcounts: both tally arrays become all zero
clearpathcounts(pc) ==
  [human |-> [p \in Paths |-> 0], mac |-> [p \in Paths |-> 0]]

\* the scan with its cell loop started at 1 instead of 0
PathScanFromOne(p) ==
  LET hits == {s \in (Cells \ {0}) \X Slots : WinsPathId(s[1], s[2]) = p}
      pos(s) == s[1] * TTTT_WINPATHSMAX + s[2]
      nth(t) == CHOOSE s \in hits :
                  Cardinality({r \in hits : pos(r) < pos(s)}) = t - 1
  IN  [t \in 1 .. Cardinality(hits) |-> nth(t)[1]]

\* the cells a scan of the table (cell i ascending, then slot k ascending)
\* meets with line id p in the slot, one entry per such slot
PathScan(p) ==
  LET hits == {s \in Cells \X Slots : WinsPathId(s[1], s[2]) = p}
      pos(s) == s[1] * TTTT_WINPATHSMAX + s[2]
      nth(t) == CHOOSE s \in hits :
                  Cardinality({r \in hits : pos(r) < pos(s)}) = t - 1
  IN  [t \in 1 .. Cardinality(hits) |-> nth(t)[1]]

\* PathScan tabulated once for all line ids (f @@ <<>> is f, enumerated)
PathCells == [p \in Paths |-> PathScan(p) @@ <<>>] @@ <<>>

\* how often the loops of count_human / count_machine increment the tally
\* of line id p while boardeval walks aBoard: once for every slot holding p
\* in the row of a cell that has the player's piece
Increments(aBoard, player, p) ==
  Cardinality({t \in 1 .. Len(PathCells[p]) :
                 aBoard[PathCells[p][t]] = player})

\* count_human run for every human cell of aBoard (first loop of boardeval)
count_human(pc, aBoard) ==
  [pc EXCEPT !.human =
     [p \in Paths |-> @[p] + Increments(aBoard, kXS_HUMAN_PLAYER, p)]]

\* count_machine run for every occupied cell of aBoard
count_machineEveryPiece(pc, aBoard) ==
  [pc EXCEPT !.mac =
     [p \in Paths |-> @[p] + Increments(aBoard, kXS_MACHINE_PLAYER, p)
                           + Increments(aBoard, kXS_HUMAN_PLAYER, p)]]

\* count_machine run for every machine cell of aBoard
count_machine(pc, aBoard) ==
  [pc EXCEPT !.mac =
     [p \in Paths |-> @[p] + Increments(aBoard, kXS_MACHINE_PLAYER, p)]]

\* the second loop with the two indices of the weight matrix exchanged
RECURSIVE SumWeightsTransposed(_, _, _, _)
SumWeightsTransposed(weights, pc, first, last) ==
  IF first > last THEN 0
  ELSE IF first = last
    THEN weights[pc.mac[first] + 1][pc.human[first] + 1]
  ELSE LET mid == (first + last) \div 2
       IN  SumWeightsTransposed(weights, pc, first, mid)
           + SumWeightsTransposed(weights, pc, mid + 1, last)

\* the second loop of boardeval: what it adds to total_score for the lines
\* first .. last (the sum is split in halves to keep the evaluation flat)
RECURSIVE SumWeights(_, _, _, _)
SumWeights(weights, pc, first, last) ==
  IF first > last THEN 0
  ELSE IF first = last
    THEN weights[pc.human[first] + 1][pc.mac[first] + 1]
  ELSE LET mid == (first + last) \div 2
       IN  SumWeights(weights, pc, first, mid)
           + SumWeights(weights, pc, mid + 1, last)

\* boardeval: the score and the tallies it leaves in the_path_counts_*;
\* pc is the content of the tally arrays when it is called
boardeval(aBoard, weights, pc) ==
  LET counted == count_human(count_machine(clearpathcounts(pc), aBoard),
                            aBoard)
  IN  [score |-> SumWeights(weights, counted, 0,
                           TTTT_WINNING_PATHS_COUNT - 1),
       pc |-> counted]

\* futureboardscore: boardeval of a copy of the board with aMove set to the
\* machine's piece (currentPlayer is ignored by the code)
futureboardscore(board, weights, pc, aMove, currentPlayer) ==
  CHOOSE ev \in {boardeval(future_board, weights, pc) :
                   future_board \in
                     {[board EXCEPT ![aMove] = kXS_MACHINE_PLAYER]}} : TRUE

\* ------------------------------------------------------------------------
\* Win detection  (TTTT.c, LOCAL FUNCTIONS)
\* ------------------------------------------------------------------------
\* setwinpath filling the_winpath from its last entry down
setwinpathReversed(winpath, pathwinner) ==
  LET found == PathCells[pathwinner]
  IN  [t \in 1 .. TTTT_WIN_SIZE |->
         IF TTTT_WIN_SIZE - t + 1 <= Len(found)
           THEN found[TTTT_WIN_SIZE - t + 1] ELSE winpath[t]]

\* setwinpath: the_winpath[tally++] = i for every match; entries that the
\* scan does not reach keep their old value
setwinpath(winpath, pathwinner) ==
  LET found == PathCells[pathwinner]
  IN  [t \in 1 .. TTTT_WIN_SIZE |->
         IF t <= Len(found) THEN found[t] ELSE winpath[t]]

\* the body of the loop of checkforwinners leaving a winner once found as
\* it is
WinnerStepFirstWins(pc, s, j) ==
  IF s.aWinner # kXS_NOBODY_PLAYER THEN s
  ELSE IF pc.mac[j] = TTTT_WIN_SIZE
    THEN [aWinner |-> kXS_MACHINE_PLAYER,
          winpath |-> setwinpath(s.winpath, j)]
  ELSE IF pc.human[j] = TTTT_WIN_SIZE
    THEN [aWinner |-> kXS_HUMAN_PLAYER,
          winpath |-> setwinpath(s.winpath, j)]
  ELSE s

\* the body of the loop of checkforwinners for line id j: the test of the
\* machine's tally, then the test of the human's; s holds the local aWinner
\* and the global the_winpath when the body starts
WinnerStep(pc, s, j) ==
  CHOOSE next \in
    {IF pc.human[j] = TTTT_WIN_SIZE
       THEN [aWinner |-> kXS_HUMAN_PLAYER,
             winpath |-> setwinpath(mac.winpath, j)]
       ELSE mac :
       mac \in {IF pc.mac[j] = TTTT_WIN_SIZE
                  THEN [aWinner |-> kXS_MACHINE_PLAYER,
                        winpath |-> setwinpath(s.winpath, j)]
                  ELSE s}} : TRUE

\* the loop of checkforwinners for j = first .. last (walked in halves to
\* keep the evaluation flat)
RECURSIVE WinnerLoop(_, _, _, _)
WinnerLoop(pc, s, first, last) ==
  IF first > last THEN s
  ELSE IF first = last THEN WinnerStep(pc, s, first)
  ELSE CHOOSE done \in
         {WinnerLoop(pc, half, ((first + last) \div 2) + 1, last) :
            half \in {WinnerLoop(pc, s, first, (first + last) \div 2)}} :
         TRUE

\* the loop of checkforwinners from line id j on; aWinner and winpath are
\* the local aWinner and the global the_winpath when the loop starts
WinnerScan(pc, j, aWinner, winpath) ==
  WinnerLoop(pc, [aWinner |-> aWinner, winpath |-> winpath], j,
             TTTT_WINNING_PATHS_COUNT - 1)

\* checkforwinners: the winner, the winning cells and the tallies it leaves
checkforwinners(board, weights, pc, winpath) ==
  LET ev == boardeval(board, weights, pc)
      scan == WinnerScan(ev.pc, 0, kXS_NOBODY_PLAYER, winpath)
  IN  [aWinner |-> scan.aWinner, winpath |-> scan.winpath, pc |-> ev.pc]

clearwinpath == [t \in 1 .. TTTT_WIN_SIZE |-> 0]

initboard == [c \in Cells |-> kXS_NOBODY_PLAYER]

initweights == default_weights

clear_movestack == <<>>

\* the tally arrays as one record
PathCounts == [human |-> the_path_counts_human, mac |-> the_path_counts_mac]

\* ------------------------------------------------------------------------
\* Queries that read the state and write nothing
\* ------------------------------------------------------------------------
\* getboard: the string it writes into pszBoard
getboard ==
  [n \in 1 .. TTTT_BOARD_POSITIONS |->
     IF the_board[n - 1] = kXS_HUMAN_PLAYER THEN "X"
     ELSE IF the_board[n - 1] = kXS_MACHINE_PLAYER THEN "O"
     ELSE "_"]

\* TTTT_GetBoard: status and the string copied to the caller
TTTT_GetBoard ==
  IF \E c \in Cells : the_board[c] < kXS_NOBODY_PLAYER
                      \/ the_board[c] > kXS_HUMAN_PLAYER
    THEN [status |-> kTTTT_InvalidMove, pszGameBoard |-> <<>>]
    ELSE [status |-> kTTTT_NoError, pszGameBoard |-> getboard]

\* TTTT_GetWinner: *aWinner
TTTT_GetWinner == the_winner_is

\* TTTT_GetWinnerPath: aWinnerPath[0..3]
TTTT_GetWinnerPath == [t \in 1 .. TTTT_WIN_SIZE |-> the_winpath[t]]

\* ------------------------------------------------------------------------
\* Move selection  (TTTT.c: machinemoverote, machinemoverandomized,
\* choosemove)
\* ------------------------------------------------------------------------
\* the body of the loop of machinemoverote with "boardvalue <= minscore" as
\* its test
RoteStepLastTie(board, weights, s, trymove) ==
  IF board[trymove] = kXS_NOBODY_PLAYER
    THEN CHOOSE next \in
           {IF ev.score <= s.minscore
              THEN [bestmove |-> trymove, minscore |-> ev.score,
                    pc |-> ev.pc]
              ELSE [s EXCEPT !.pc = ev.pc] :
              ev \in {futureboardscore(board, weights, s.pc, trymove,
                                       kXS_MACHINE_PLAYER)}} : TRUE
    ELSE s

\* the body of the loop of machinemoverote for cell trymove; s holds
\* bestmove, minscore and the tallies when the body starts
RoteStep(board, weights, s, trymove) ==
  IF board[trymove] = kXS_NOBODY_PLAYER
    THEN CHOOSE next \in
           {IF ev.score < s.minscore
              THEN [bestmove |-> trymove, minscore |-> ev.score,
                    pc |-> ev.pc]
              ELSE [s EXCEPT !.pc = ev.pc] :
              ev \in {futureboardscore(board, weights, s.pc, trymove,
                                       kXS_MACHINE_PLAYER)}} : TRUE
    ELSE s

\* the loop of machinemoverote for trymove = first .. last, in that order
\* (the range is walked in halves to keep the evaluation flat)
RECURSIVE RoteLoop(_, _, _, _, _)
RoteLoop(board, weights, s, first, last) ==
  IF first > last THEN s
  ELSE IF first = last THEN RoteStep(board, weights, s, first)
  ELSE CHOOSE done \in
         {RoteLoop(board, weights, half, ((first + last) \div 2) + 1, last) :
            half \in {RoteLoop(board, weights, s, first,
                               (first + last) \div 2)}} : TRUE

\* the scan of machinemoverote from cell trymove on
RoteScan(board, weights, pc, trymove, minscore, bestmove) ==
  RoteLoop(board, weights,
           [bestmove |-> bestmove, minscore |-> minscore, pc |-> pc],
           trymove, TTTT_BOARD_POSITIONS - 1)

\* the body of the loop of machinemoverandomized pushing every move it
\* keeps twice
RandomizedStepPushTwice(board, weights, s, trymove) ==
  IF board[trymove] = kXS_NOBODY_PLAYER
    THEN CHOOSE next \in
           {IF ev.score <= s.minscore
              THEN [bestmove |-> trymove, minscore |-> ev.score,
                    pc |-> ev.pc,
                    st |-> s.st \o << [theMove |-> trymove,
                                       theScore |-> ev.score],
                                      [theMove |-> trymove,
                                       theScore |-> ev.score] >>]
              ELSE [s EXCEPT !.pc = ev.pc] :
              ev \in {futureboardscore(board, weights, s.pc, trymove,
                                       kXS_MACHINE_PLAYER)}} : TRUE
    ELSE s

\* the body of the loop of machinemoverandomized for cell trymove; s holds
\* bestmove, minscore, the tallies and stack A (*st) when the body starts
RandomizedStep(board, weights, s, trymove) ==
  IF board[trymove] = kXS_NOBODY_PLAYER
    THEN CHOOSE next \in
           {IF ev.score <= s.minscore
              THEN [bestmove |-> trymove, minscore |-> ev.score,
                    pc |-> ev.pc,
                    st |-> Append(s.st, [theMove |-> trymove,
                                         theScore |-> ev.score])]
              ELSE [s EXCEPT !.pc = ev.pc] :
              ev \in {futureboardscore(board, weights, s.pc, trymove,
                                       kXS_MACHINE_PLAYER)}} : TRUE
    ELSE s

\* the loop of machinemoverandomized for trymove = first .. last
RECURSIVE RandomizedLoop(_, _, _, _, _)
RandomizedLoop(board, weights, s, first, last) ==
  IF first > last THEN s
  ELSE IF first = last THEN RandomizedStep(board, weights, s, first)
  ELSE CHOOSE done \in
         {RandomizedLoop(board, weights, half,
                         ((first + last) \div 2) + 1, last) :
            half \in {RandomizedLoop(board, weights, s, first,
                                     (first + last) \div 2)}} : TRUE

\* the scan of machinemoverandomized from cell trymove on; st is *st
RandomizedScan(board, weights, pc, trymove, minscore, bestmove, st) ==
  RandomizedLoop(board, weights,
                 [bestmove |-> bestmove, minscore |-> minscore, pc |-> pc,
                  st |-> st],
                 trymove, TTTT_BOARD_POSITIONS - 1)

\* the pop loops on stack A keeping the top of A only
DrainTopOnly(st, bm) ==
  IF Len(st) = 0 THEN bm ELSE Append(bm, st[Len(st)])

\* stack B after the two pop loops on stack A: the top of A (goodmove), then
\* the other entries of A from the top down whose score equals goodmove's
DrainIntoBestMoves(st, bm) ==
  IF Len(st) = 0 THEN bm
  ELSE LET goodmove == st[Len(st)]
           evenmoves == [n \in 1 .. (Len(st) - 1) |-> st[Len(st) - n]]
       IN  Append(bm, goodmove)
           \o SelectSeq(evenmoves,
                        LAMBDA e : e.theScore = goodmove.theScore)

\* bestmove after "while (pop(bm, &goodmove) && pickedmove > 0)": the move
\* of the pickedmove-th entry popped from the top of bm (or the one before
\* the loop when nothing is popped)
PickFromBestMoves(bm, pickedmove, bestmove) ==
  IF Len(bm) = 0 \/ pickedmove <= 0 THEN bestmove
  ELSE IF pickedmove >= Len(bm) THEN bm[1].theMove
  ELSE bm[Len(bm) - pickedmove + 1].theMove

\* the state a machine move leaves when the_board[bestmove] is written and
\* the_winner_is is not assigned from checkforwinners
CommitMachineMoveNoDetection(bestmove, pc) ==
  LET board == IF bestmove \in Cells
                 THEN [the_board EXCEPT ![bestmove] = kXS_MACHINE_PLAYER]
                 ELSE the_board
  IN  [bestmove |-> bestmove, board |-> board, winner |-> the_winner_is,
       winpath |-> the_winpath, pc |-> pc,
       fault |-> IF bestmove \in Cells THEN "none" ELSE "oob_write",
       accepted |-> TRUE, st |-> firstpass_stack, bm |-> bestmoves_stack]

\* the state a machine move leaves once bestmove is chosen: the write
\* the_board[bestmove] = machine and the win detection after it.
\* bestmove = -1 writes the byte before the_board: no cell changes and the
\* fault is recorded
CommitMachineMove(bestmove, pc) ==
  LET board == IF bestmove \in Cells
                 THEN [the_board EXCEPT ![bestmove] = kXS_MACHINE_PLAYER]
                 ELSE the_board
      won == checkforwinners(board, the_weights, pc, the_winpath)
  IN  [bestmove |-> bestmove, board |-> board, winner |-> won.aWinner,
       winpath |-> won.winpath, pc |-> won.pc,
       fault |-> IF bestmove \in Cells THEN "none" ELSE "oob_write",
       accepted |-> TRUE, st |-> firstpass_stack, bm |-> bestmoves_stack]

\* a machine move refused because the game is decided
NoMachineMove ==
  [bestmove |-> kXS_UNDEFINED_MOVE, board |-> the_board,
   winner |-> the_winner_is, winpath |-> the_winpath, pc |-> PathCounts,
   fault |-> "none", accepted |-> FALSE, st |-> firstpass_stack,
   bm |-> bestmoves_stack]

\* machinemoverote without the test of the_winner_is
machinemoveroteIgnoringWinner ==
  CHOOSE done \in {CommitMachineMove(scan.bestmove, scan.pc) :
                     scan \in {RoteScan(the_board, the_weights, PathCounts,
                                        0, TTTT_VERY_BIG_BOARDVALUE,
                                        kXS_UNDEFINED_MOVE)}} : TRUE

\* machinemoverote
machinemoverote ==
  IF the_winner_is = kXS_NOBODY_PLAYER
    THEN CHOOSE done \in
           {CommitMachineMove(scan.bestmove, scan.pc) :
              scan \in {RoteScan(the_board, the_weights, PathCounts, 0,
                                 TTTT_VERY_BIG_BOARDVALUE,
                                 kXS_UNDEFINED_MOVE)}} : TRUE
    ELSE NoMachineMove

\* the end of machinemoverandomized once the scan has left scan and the pop
\* loops have left bm (and stack A empty), arc4random() returning random.
\* With bm empty the draw divides by zero, which either stops the process
\* or (where the division does not trap) yields 0, so that nothing is
\* popped; otherwise both stacks are cleared before the piece is written
RandomizedPick(scan, bm, random) ==
  LET pickedmove == IF Len(bm) = 0 THEN 1 ELSE (random % Len(bm)) + 1
      bestmove == PickFromBestMoves(bm, pickedmove, scan.bestmove)
      cleared == [CommitMachineMove(bestmove, scan.pc)
                    EXCEPT !.st = clear_movestack, !.bm = clear_movestack]
  IN  IF Len(bm) = 0
        THEN {[bestmove |-> bestmove, board |-> the_board,
               winner |-> the_winner_is, winpath |-> the_winpath,
               pc |-> scan.pc, fault |-> "div_by_zero", accepted |-> TRUE,
               st |-> clear_movestack, bm |-> bm],
              cleared}
        ELSE {cleared}

\* machinemoverandomized without the test of the_winner_is
machinemoverandomizedIgnoringWinner ==
  UNION {UNION {UNION {RandomizedPick(scan, bm, random) :
                         random \in RandomInputs} :
                  bm \in {DrainIntoBestMoves(scan.st, bestmoves_stack)}} :
           scan \in {RandomizedScan(the_board, the_weights, PathCounts, 0,
                                    TTTT_VERY_BIG_BOARDVALUE,
                                    kXS_UNDEFINED_MOVE, firstpass_stack)}}

\* machinemoverandomized: the outcomes over the values arc4random() returns
machinemoverandomized ==
  IF the_winner_is = kXS_NOBODY_PLAYER
    THEN UNION {UNION {UNION {RandomizedPick(scan, bm, random) :
                                random \in RandomInputs} :
                         bm \in {DrainIntoBestMoves(scan.st,
                                                    bestmoves_stack)}} :
                  scan \in {RandomizedScan(the_board, the_weights,
                                           PathCounts, 0,
                                           TTTT_VERY_BIG_BOARDVALUE,
                                           kXS_UNDEFINED_MOVE,
                                           firstpass_stack)}}
    ELSE {NoMachineMove}

\* machinemove
machinemove ==
  IF randomized THEN machinemoverandomized ELSE {machinemoverote}

\* the body of the loop of choosemove without "board[i] =
\* kXS_NOBODY_PLAYER; // Undo the move": the tentative piece stays
ChooseStepNoUndo(weights, player, s, i) ==
  IF s.board[i] = kXS_NOBODY_PLAYER
    THEN CHOOSE next \in
           UNION {{IF (IF player = kXS_MACHINE_PLAYER
                         THEN ev.score < s.bestScore
                         ELSE ev.score > s.bestScore)
                     THEN [bestMove |-> i, bestScore |-> ev.score,
                           pc |-> ev.pc, board |-> tried]
                     ELSE [s EXCEPT !.pc = ev.pc, !.board = tried] :
                     ev \in {boardeval(tried, weights, s.pc)}} :
                    tried \in {[s.board EXCEPT ![i] = player]}} : TRUE
    ELSE s

\* the body of the loop of choosemove with "<=" and ">=" as its tests: the
\* last of the tied cells is kept
ChooseStepLastTie(weights, player, s, i) ==
  IF s.board[i] = kXS_NOBODY_PLAYER
    THEN CHOOSE next \in
           UNION {{IF (IF player = kXS_MACHINE_PLAYER
                         THEN ev.score <= s.bestScore
                         ELSE ev.score >= s.bestScore)
                     THEN [bestMove |-> i, bestScore |-> ev.score,
                           pc |-> ev.pc,
                           board |-> [tried EXCEPT
                                        ![i] = kXS_NOBODY_PLAYER]]
                     ELSE [s EXCEPT !.pc = ev.pc,
                                    !.board = [tried EXCEPT
                                                 ![i] = kXS_NOBODY_PLAYER]] :
                     ev \in {boardeval(tried, weights, s.pc)}} :
                    tried \in {[s.board EXCEPT ![i] = player]}} : TRUE
    ELSE s

\* the body of the loop of choosemove for cell i; s holds bestMove,
\* bestScore, the tallies and the board when the body starts. The tentative
\* piece is removed again, so the board the body leaves is the one it found
ChooseStep(weights, player, s, i) ==
  IF s.board[i] = kXS_NOBODY_PLAYER
    THEN CHOOSE next \in
           UNION {{IF (IF player = kXS_MACHINE_PLAYER
                         THEN ev.score < s.bestScore
                         ELSE ev.score > s.bestScore)
                     THEN [bestMove |-> i, bestScore |-> ev.score,
                           pc |-> ev.pc,
                           board |-> [tried EXCEPT
                                        ![i] = kXS_NOBODY_PLAYER]]
                     ELSE [s EXCEPT !.pc = ev.pc,
                                    !.board = [tried EXCEPT
                                                 ![i] = kXS_NOBODY_PLAYER]] :
                     ev \in {boardeval(tried, weights, s.pc)}} :
                    tried \in {[s.board EXCEPT ![i] = player]}} : TRUE
    ELSE s

\* the loop of choosemove for i = first .. last
RECURSIVE ChooseLoop(_, _, _, _, _)
ChooseLoop(weights, player, s, first, last) ==
  IF first > last THEN s
  ELSE IF first = last THEN ChooseStep(weights, player, s, first)
  ELSE CHOOSE done \in
         {ChooseLoop(weights, player, half, ((first + last) \div 2) + 1,
                     last) :
            half \in {ChooseLoop(weights, player, s, first,
                                 (first + last) \div 2)}} : TRUE

\* the scan of choosemove from cell i on
ChooseScan(board, weights, pc, player, i, bestScore, bestMove) ==
  ChooseLoop(weights, player,
             [bestMove |-> bestMove, bestScore |-> bestScore, pc |-> pc,
              board |-> board],
             i, TTTT_BOARD_POSITIONS - 1)

\* choosemove(board, player)
choosemove(board, weights, pc, player) ==
  ChooseScan(board, weights, pc, player, 0,
             IF player = kXS_MACHINE_PLAYER
               THEN TTTT_VERY_BIG_BOARDVALUE
               ELSE -TTTT_VERY_BIG_BOARDVALUE,
             kXS_UNDEFINED_MOVE)

\* ------------------------------------------------------------------------
\* Operations
\* ------------------------------------------------------------------------
Init ==
  /\ the_board = initboard
  /\ the_winner_is = kXS_NOBODY_PLAYER
  /\ the_winpath = clearwinpath
  /\ the_path_counts_mac = [p \in Paths |-> 0]
  /\ the_path_counts_human = [p \in Paths |-> 0]
  /\ the_weights = initweights
  /\ randomized = FALSE
  /\ firstpass_stack = clear_movestack
  /\ bestmoves_stack = clear_movestack
  /\ op = "idle"
  /\ arg = -1
  /\ ret = 0
  /\ status = kTTTT_NoError
  /\ fault = "none"
  /\ calls = 0

\* the caller makes a call when it holds no result, and a process stopped
\* by a trap makes none
Ready == op = "idle" /\ fault # "div_by_zero"

\* the caller has read what the last call returned
Return ==
  /\ op # "idle"
  /\ fault # "div_by_zero"
  /\ op' = "idle" /\ arg' = -1 /\ ret' = 0
  /\ status' = kTTTT_NoError /\ fault' = "none"
  /\ UNCHANGED << the_board, the_winner_is, the_winpath,
                  the_path_counts_mac, the_path_counts_human, the_weights,
                  randomized, firstpass_stack, bestmoves_stack, calls >>

\* initialize without its call of initweights
TTTT_InitializeKeepingWeights ==
  /\ the_winner_is' = kXS_NOBODY_PLAYER
  /\ the_board' = initboard
  /\ the_path_counts_mac' = clearpathcounts(PathCounts).mac
  /\ the_path_counts_human' = clearpathcounts(PathCounts).human
  /\ the_winpath' = clearwinpath
  /\ firstpass_stack' = clear_movestack
  /\ bestmoves_stack' = clear_movestack
  /\ op' = "initialize" /\ arg' = -1 /\ ret' = 0
  /\ status' = kTTTT_NoError /\ fault' = "none" /\ calls' = 0
  /\ UNCHANGED << randomized, the_weights >>

\* TTTT_Initialize -> initialize
TTTT_Initialize ==
  /\ the_winner_is' = kXS_NOBODY_PLAYER
  /\ the_board' = initboard
  /\ the_weights' = initweights
  /\ the_path_counts_mac' = clearpathcounts(PathCounts).mac
  /\ the_path_counts_human' = clearpathcounts(PathCounts).human
  /\ the_winpath' = clearwinpath
  /\ firstpass_stack' = clear_movestack
  /\ bestmoves_stack' = clear_movestack
  /\ op' = "initialize" /\ arg' = -1 /\ ret' = 0
  /\ status' = kTTTT_NoError /\ fault' = "none" /\ calls' = 0
  /\ UNCHANGED randomized

Initialize == Ready /\ TTTT_Initialize

\* humanmove without the test of the_winner_is
humanmoveIgnoringWinner(aMove) ==
  IF the_board[aMove] = kXS_NOBODY_PLAYER
    THEN LET board == [the_board EXCEPT ![aMove] = kXS_HUMAN_PLAYER]
             won == checkforwinners(board, the_weights, PathCounts,
                                    the_winpath)
         IN  [move_made |-> aMove, board |-> board,
              winner |-> won.aWinner, winpath |-> won.winpath,
              pc |-> won.pc]
    ELSE [move_made |-> kXS_UNDEFINED_MOVE, board |-> the_board,
          winner |-> the_winner_is, winpath |-> the_winpath,
          pc |-> PathCounts]

\* humanmove: what it returns and the state it leaves
humanmove(aMove) ==
  IF the_board[aMove] = kXS_NOBODY_PLAYER
     /\ the_winner_is = kXS_NOBODY_PLAYER
    THEN LET board == [the_board EXCEPT ![aMove] = kXS_HUMAN_PLAYER]
             won == checkforwinners(board, the_weights, PathCounts,
                                    the_winpath)
         IN  [move_made |-> aMove, board |-> board,
              winner |-> won.aWinner, winpath |-> won.winpath,
              pc |-> won.pc]
    ELSE [move_made |-> kXS_UNDEFINED_MOVE, board |-> the_board,
          winner |-> the_winner_is, winpath |-> the_winpath,
          pc |-> PathCounts]

\* humanmove with aMove outside 0..63: the_board[aMove] is read outside the
\* array and yields whatever lies there. Read as occupied, or with the game
\* decided, the move is refused; read as empty, the piece is written
\* outside the array, no cell of the board changes, and the win detection
\* runs on the board as it is
humanmoveOutside(aMove) ==
  {[move_made |-> kXS_UNDEFINED_MOVE, board |-> the_board,
    winner |-> the_winner_is, winpath |-> the_winpath, pc |-> PathCounts,
    fault |-> "oob_read"]}
  \cup
  (IF the_winner_is = kXS_NOBODY_PLAYER
     THEN {[move_made |-> aMove, board |-> the_board,
            winner |-> won.aWinner, winpath |-> won.winpath, pc |-> won.pc,
            fault |-> "oob_write"] :
             won \in {checkforwinners(the_board, the_weights, PathCounts,
                                      the_winpath)}}
     ELSE {})

\* TTTT_HumanMove(aMove); ret is what humanmove returns
TTTT_HumanMove(aMove) ==
  \E r \in (IF aMove \in Cells THEN {humanmove(aMove)}
                               ELSE humanmoveOutside(aMove)) :
    /\ (r.move_made # kXS_UNDEFINED_MOVE
        /\ the_winner_is = kXS_NOBODY_PLAYER) => calls < MaxCalls
    /\ the_board' = r.board
    /\ the_winner_is' = r.winner
    /\ the_winpath' = r.winpath
    /\ the_path_counts_mac' = r.pc.mac
    /\ the_path_counts_human' = r.pc.human
    /\ op' = "humanmove" /\ arg' = aMove /\ ret' = r.move_made
    /\ status' = IF r.move_made = aMove THEN kTTTT_NoError
                                        ELSE kTTTT_InvalidMove
    /\ fault' = IF aMove \in Cells THEN "none" ELSE r.fault
    /\ calls' = IF r.move_made # kXS_UNDEFINED_MOVE
                    /\ the_winner_is = kXS_NOBODY_PLAYER
                   THEN calls + 1 ELSE calls
    /\ UNCHANGED << the_weights, randomized, firstpass_stack,
                    bestmoves_stack >>

HumanMove == \E aMove \in CellInputs : Ready /\ TTTT_HumanMove(aMove)

\* TTTT_MacMove(aMove); ret is *aMove
TTTT_MacMove ==
  /\ the_winner_is = kXS_NOBODY_PLAYER => calls < MaxCalls
  /\ \E r \in machinemove :
       /\ the_board' = r.board
       /\ the_winner_is' = r.winner
       /\ the_winpath' = r.winpath
       /\ the_path_counts_mac' = r.pc.mac
       /\ the_path_counts_human' = r.pc.human
       /\ firstpass_stack' = r.st
       /\ bestmoves_stack' = r.bm
       /\ op' = "machinemove" /\ arg' = -1 /\ ret' = r.bestmove
       /\ status' = kTTTT_NoError
       /\ fault' = r.fault
       /\ calls' = IF r.accepted /\ the_winner_is = kXS_NOBODY_PLAYER
                      THEN calls + 1 ELSE calls
       /\ UNCHANGED << the_weights, randomized >>

MachineMove == Ready /\ TTTT_MacMove

\* undomove taking back the human's pieces only
undomoveHumanOnly(aMove) ==
  IF the_board[aMove] = kXS_HUMAN_PLAYER
    THEN [undomove |-> aMove,
          board |-> [the_board EXCEPT ![aMove] = kXS_NOBODY_PLAYER]]
    ELSE [undomove |-> kXS_UNDEFINED_MOVE, board |-> the_board]

\* undomove: what it returns and the board it leaves
undomove(aMove) ==
  IF the_board[aMove] # kXS_NOBODY_PLAYER
    THEN [undomove |-> aMove,
          board |-> [the_board EXCEPT ![aMove] = kXS_NOBODY_PLAYER]]
    ELSE [undomove |-> kXS_UNDEFINED_MOVE, board |-> the_board]

\* undomove with aMove outside 0..63: what lies at the_board[aMove] is read,
\* and cleared when it is not zero; no cell of the board changes
undomoveOutside(aMove) ==
  {[undomove |-> kXS_UNDEFINED_MOVE, board |-> the_board,
    fault |-> "oob_read"],
   [undomove |-> aMove, board |-> the_board, fault |-> "oob_write"]}

\* TTTT_UndoMove(aMove); ret is what undomove returns (the wrapper drops it)
TTTT_UndoMove(aMove) ==
  \E r \in (IF aMove \in Cells THEN {undomove(aMove)}
                               ELSE undomoveOutside(aMove)) :
    /\ the_board' = r.board
    /\ op' = "undomove" /\ arg' = aMove /\ ret' = r.undomove
    /\ status' = kTTTT_NoError
    /\ fault' = IF aMove \in Cells THEN "none" ELSE r.fault
    /\ UNCHANGED << the_winner_is, the_winpath, the_path_counts_mac,
                    the_path_counts_human, the_weights, randomized,
                    firstpass_stack, bestmoves_stack, calls >>

UndoMove == \E aMove \in CellInputs : Ready /\ TTTT_UndoMove(aMove)

\* the board TTTT_SetBoard / TTTT_EvaluateBoardValue read from a string
ParseBoard(pszGameBoard) ==
  [c \in Cells |->
     IF pszGameBoard[c + 1] = "X" THEN kXS_HUMAN_PLAYER
     ELSE IF pszGameBoard[c + 1] = "O" THEN kXS_MACHINE_PLAYER
     ELSE kXS_NOBODY_PLAYER]

\* setboard: TTTT_clone_board(the_board, new_board)
setboard(new_board) == [c \in Cells |-> new_board[c]]

\* TTTT_SetBoard running the win detection on the board it has set
TTTT_SetBoardDetecting(n) ==
  \E won \in {checkforwinners(setboard(ParseBoard(BoardStrings[n])),
                               the_weights, PathCounts, the_winpath)} :
    /\ the_winner_is = kXS_NOBODY_PLAYER => calls < MaxCalls
    /\ the_board' = setboard(ParseBoard(BoardStrings[n]))
    /\ the_winner_is' = won.aWinner
    /\ the_winpath' = won.winpath
    /\ the_path_counts_mac' = won.pc.mac
    /\ the_path_counts_human' = won.pc.human
    /\ op' = "setboard" /\ arg' = n /\ ret' = 0
    /\ status' = kTTTT_NoError
    /\ fault' = "none"
    /\ calls' = IF the_winner_is = kXS_NOBODY_PLAYER THEN calls + 1
                                                      ELSE calls
    /\ UNCHANGED << the_weights, randomized, firstpass_stack,
                    bestmoves_stack >>

\* TTTT_SetBoard(pszGameBoard), the string being BoardStrings[n]
TTTT_SetBoard(n) ==
  /\ the_winner_is = kXS_NOBODY_PLAYER => calls < MaxCalls
  /\ the_board' = setboard(ParseBoard(BoardStrings[n]))
  /\ op' = "setboard" /\ arg' = n /\ ret' = 0
  /\ status' = kTTTT_NoError
  /\ fault' = "none"
  /\ calls' = IF the_winner_is = kXS_NOBODY_PLAYER THEN calls + 1
                                                    ELSE calls
  /\ UNCHANGED << the_winner_is, the_winpath, the_path_counts_mac,
                  the_path_counts_human, the_weights, randomized,
                  firstpass_stack, bestmoves_stack >>

SetBoard == \E n \in StringInputs : Ready /\ TTTT_SetBoard(n)

\* TTTT_EvaluateBoardValue(pszGameBoard, pValue), the string being
\* BoardStrings[n]; ret is *pValue
TTTT_EvaluateBoardValue(n) ==
  /\ calls < MaxCalls
  /\ calls' = calls + 1
  /\ \E ev \in {boardeval(ParseBoard(BoardStrings[n]), the_weights,
                          PathCounts)} :
       /\ the_path_counts_mac' = ev.pc.mac
       /\ the_path_counts_human' = ev.pc.human
       /\ op' = "evaluate" /\ arg' = n /\ ret' = ev.score
       /\ status' = kTTTT_NoError
       /\ fault' = "none"
       /\ UNCHANGED << the_board, the_winner_is, the_winpath, the_weights,
                       randomized, firstpass_stack, bestmoves_stack >>

EvaluateBoardValue ==
  \E n \in StringInputs : Ready /\ TTTT_EvaluateBoardValue(n)

\* setweights with its outer loop stopped after the first row
setweightsFirstRow(weights) ==
  [i \in 1 .. TTTT_WEIGHT_MATRIX_SIZE |->
     [j \in 1 .. TTTT_WEIGHT_MATRIX_SIZE |->
        IF i = 1 THEN weights[i][j] ELSE the_weights[i][j]]]

\* setweights: all 25 entries copied
setweights(weights) ==
  [i \in 1 .. TTTT_WEIGHT_MATRIX_SIZE |->
     [j \in 1 .. TTTT_WEIGHT_MATRIX_SIZE |-> weights[i][j]]]

\* TTTT_SetHeuristicWeights(matrix), the matrix being WeightChoices[n]
TTTT_SetHeuristicWeights(n) ==
  /\ calls < MaxCalls
  /\ calls' = calls + 1
  /\ the_weights' = setweights(WeightChoices[n])
  /\ op' = "setweights" /\ arg' = n /\ ret' = 0
  /\ status' = kTTTT_NoError
  /\ fault' = "none"
  /\ UNCHANGED << the_board, the_winner_is, the_winpath,
                  the_path_counts_mac, the_path_counts_human, randomized,
                  firstpass_stack, bestmoves_stack >>

SetHeuristicWeights ==
  \E n \in WeightInputs : Ready /\ TTTT_SetHeuristicWeights(n)

\* TTTT_SetRandomize(randomize) -> setrandomize
TTTT_SetRandomize(randomize) ==
  /\ randomized' = randomize
  /\ op' = "setrandomize" /\ arg' = (IF randomize THEN 1 ELSE 0) /\ ret' = 0
  /\ status' = kTTTT_NoError
  /\ fault' = "none"
  /\ UNCHANGED << the_board, the_winner_is, the_winpath,
                  the_path_counts_mac, the_path_counts_human, the_weights,
                  firstpass_stack, bestmoves_stack, calls >>

SetRandomize ==
  \E randomize \in BOOLEAN : Ready /\ TTTT_SetRandomize(randomize)

\* TTTT_GetBestMove leaving the piece of the move it advises on the board
TTTT_GetBestMoveCommitting(player) ==
  /\ \/ calls < MaxCalls
     \/ the_winner_is # kXS_NOBODY_PLAYER /\ calls = MaxCalls
  /\ calls' = calls + 1
  /\ \E r \in {choosemove(the_board, the_weights, PathCounts, player)} :
       /\ the_board' = IF r.bestMove \in Cells
                         THEN [r.board EXCEPT ![r.bestMove] = player]
                         ELSE r.board
       /\ the_path_counts_mac' = r.pc.mac
       /\ the_path_counts_human' = r.pc.human
       /\ op' = "bestmove" /\ arg' = player /\ ret' = r.bestMove
       /\ status' = kTTTT_NoError
       /\ fault' = "none"
       /\ UNCHANGED << the_winner_is, the_winpath, the_weights, randomized,
                       firstpass_stack, bestmoves_stack >>

\* TTTT_GetBestMove(player, aMove): choosemove on the_board itself; ret is
\* *aMove
TTTT_GetBestMove(player) ==
  /\ \/ calls < MaxCalls
     \/ the_winner_is # kXS_NOBODY_PLAYER /\ calls = MaxCalls
  /\ calls' = calls + 1
  /\ \E r \in {choosemove(the_board, the_weights, PathCounts, player)} :
       /\ the_board' = r.board
       /\ the_path_counts_mac' = r.pc.mac
       /\ the_path_counts_human' = r.pc.human
       /\ op' = "bestmove" /\ arg' = player /\ ret' = r.bestMove
       /\ status' = kTTTT_NoError
       /\ fault' = "none"
       /\ UNCHANGED << the_winner_is, the_winpath, the_weights, randomized,
                       firstpass_stack, bestmoves_stack >>

GetBestMove == \E player \in PlayerInputs : Ready /\ TTTT_GetBestMove(player)

Next ==
  \/ Initialize
  \/ HumanMove
  \/ MachineMove
  \/ UndoMove
  \/ SetBoard
  \/ EvaluateBoardValue
  \/ SetHeuristicWeights
  \/ SetRandomize
  \/ GetBestMove
  \/ Return

Spec == Init /\ [][Next]_vars

\* the calls of a game alone: no evaluation, no weights, no best-move query
NextPlay ==
  \/ Initialize
  \/ HumanMove
  \/ MachineMove
  \/ UndoMove
  \/ SetBoard
  \/ SetRandomize
  \/ Return

SpecPlay == Init /\ [][NextPlay]_vars

\* ------------------------------------------------------------------------
\* Games under way: positions that calls to the engine have built
\* ------------------------------------------------------------------------
\* the board machinemoverote leaves when the winner is nobody: the scan,
\* then the_board[bestmove] = kXS_MACHINE_PLAYER
RotePlayed(board, weights) ==
  CHOOSE played \in
    {[board EXCEPT ![scan.bestmove] = kXS_MACHINE_PLAYER] :
       scan \in {RoteScan(board, weights, clearpathcounts(<<>>), 0,
                          TTTT_VERY_BIG_BOARDVALUE, kXS_UNDEFINED_MOVE)}} :
    TRUE

\* the board after n deterministic machine moves in a row from board
RECURSIVE MachineOpening(_, _, _)
MachineOpening(board, weights, n) ==
  IF n = 0 THEN board
  ELSE CHOOSE played \in
         {MachineOpening(next, weights, n - 1) :
            next \in {RotePlayed(board, weights)}} : TRUE

\* the board after accepted human moves on the cells of moves, all empty
HumanOpening(board, moves) ==
  [c \in Cells |-> IF c \in moves THEN kXS_HUMAN_PLAYER ELSE board[c]]

\* how many machine moves in a row from the empty board leave the machine
\* three pieces on a line whose fourth cell is empty, under each matrix of
\* WeightChoices
MachineOpeningMoves == << 6, 9, 5 >>

\* the cells of the human's opening: three cells of the line 35, 38, 41, 44
HumanOpeningCells == {35, 41, 44}

\* the position of a game under matrix WeightChoices[n]: after initialize
\* and TTTT_SetHeuristicWeights, the deterministic machine moves of
\* MachineOpeningMoves, then the human's moves on HumanOpeningCells; no line
\* is complete and each player has three pieces on a line
GameStarts ==
  [n \in WeightInputs |->
     HumanOpening(MachineOpening(initboard, setweights(WeightChoices[n]),
                                 MachineOpeningMoves[n]),
                  HumanOpeningCells)]

\* cells the human plays in such a game: the fourth cell of the human's line,
\* an occupied cell, and the last cell of the board
GameCells == {38, 35, 63}

\* cells taken back in such a game
GameUndoCells == {38, 44, 63}

\* the engine after the calls that build GameStarts[n]: the tallies are
\* those of the win detection of the last human move; calls counts the
\* calls made from here on
InitGame ==
  \E n \in WeightInputs :
    \E ev \in {boardeval(GameStarts[n], setweights(WeightChoices[n]),
                         clearpathcounts(<<>>))} :
      /\ the_board = GameStarts[n]
      /\ the_winner_is = kXS_NOBODY_PLAYER
      /\ the_winpath = clearwinpath
      /\ the_path_counts_mac = ev.pc.mac
      /\ the_path_counts_human = ev.pc.human
      /\ the_weights = setweights(WeightChoices[n])
      /\ randomized = FALSE
      /\ firstpass_stack = clear_movestack
      /\ bestmoves_stack = clear_movestack
      /\ op = "idle"
      /\ arg = -1
      /\ ret = 0
      /\ status = kTTTT_NoError
      /\ fault = "none"
      /\ calls = 0

GameHumanMove == \E aMove \in GameCells : Ready /\ TTTT_HumanMove(aMove)

GameUndoMove == \E aMove \in GameUndoCells : Ready /\ TTTT_UndoMove(aMove)

\* a game of human moves, machine moves and undo, without set-board
NextGame ==
  \/ Initialize
  \/ GameHumanMove
  \/ MachineMove
  \/ GameUndoMove
  \/ SetRandomize
  \/ Return

SpecGame == InitGame /\ [][NextGame]_vars

\* ------------------------------------------------------------------------
\* Machine moves with no cell to choose: a board without an empty cell, a
\* matrix under which no score is below the start value of minscore
\* ------------------------------------------------------------------------
FullBoardSetBoard == \E n \in FullBoardInputs : Ready /\ TTTT_SetBoard(n)

HeavySetHeuristicWeights ==
  \E n \in HeavyWeightInputs : Ready /\ TTTT_SetHeuristicWeights(n)

NextNoChoice ==
  \/ Initialize
  \/ FullBoardSetBoard
  \/ HeavySetHeuristicWeights
  \/ SetRandomize
  \/ HumanMove
  \/ MachineMove
  \/ Return

SpecNoChoice == Init /\ [][NextNoChoice]_vars

\* ------------------------------------------------------------------------
\* Interactive play  (main.c: interactive_mode, human_moves, machine_moves)
\* ------------------------------------------------------------------------
\* numbers the human types at the prompt of human_moves: 1..64 name the
\* cells 0..63 (0 quits: the loop ends and no further call is made)
InteractiveEntries == {1, 2, 3, 4, 5, 13, 16, 17, 22, 43, 63, 64}

\* interactive_mode up to its loop: TTTT_Initialize, then
\* TTTT_SetHeuristicWeights(new_weights) when the option -w was given
InitInteractive ==
  /\ the_board = initboard
  /\ the_winner_is = kXS_NOBODY_PLAYER
  /\ the_winpath = clearwinpath
  /\ the_path_counts_mac = [p \in Paths |-> 0]
  /\ the_path_counts_human = [p \in Paths |-> 0]
  /\ the_weights \in {initweights,
                      setweights(set_weightsmatrix(WeightsArgument))}
  /\ randomized = FALSE
  /\ firstpass_stack = clear_movestack
  /\ bestmoves_stack = clear_movestack
  /\ op = "idle"
  /\ arg = -1
  /\ ret = 0
  /\ status = kTTTT_NoError
  /\ fault = "none"
  /\ calls = 0

\* is_game_over as human_moves and machine_moves return it: announce_winner
\* of the winner flag (a refused human move returns false, the flag being
\* nobody then)
is_game_over == the_winner_is # kXS_NOBODY_PLAYER

\* human_moves with a number 1..64 typed: TTTT_HumanMove(aMove - 1). It is
\* the first call of the loop when the human goes first, and the call after
\* machine_moves
InteractiveHumanMoves ==
  /\ op \in {"idle", "machinemove"}
  /\ ~is_game_over
  /\ \E aMove \in InteractiveEntries : TTTT_HumanMove(aMove - 1)

\* machine_moves: TTTT_MacMove. It is the first call of the loop when the
\* machine goes first, and the call after human_moves, whatever
\* TTTT_HumanMove returned
InteractiveMachineMoves ==
  /\ op \in {"idle", "humanmove"}
  /\ ~is_game_over
  /\ TTTT_MacMove

NextInteractive ==
  \/ InteractiveHumanMoves
  \/ InteractiveMachineMoves

SpecInteractive == InitInteractive /\ [][NextInteractive]_vars

\* ------------------------------------------------------------------------
\* Properties
\* ------------------------------------------------------------------------
\* C1: in the_wins_path_ids_table every line id 0..75 is listed in the rows
\* of exactly 4 distinct cells of the board, no row lists the same line id
\* twice (a scan of the table meets each line id in 4 slots, in the rows of 4
\* different cells), and every entry other than the sentinel -1 is a line id
\* in 0..75.
C1_TableWellFormed ==
  /\ \A p \in Paths :
       LET listed == {PathCells[p][t] : t \in 1 .. Len(PathCells[p])}
       IN  /\ listed \subseteq DOMAIN the_board
           /\ Cardinality(listed) = TTTT_WIN_SIZE
           /\ Len(PathCells[p]) = Cardinality(listed)
  /\ \A i \in DOMAIN the_board : \A k \in Slots :
       WinsPathId(i, k) = -1 \/ WinsPathId(i, k) \in Paths

\* a game has been won and the stored winning cells are the four cells that
\* list one line id in their rows
C1_Witness ==
  /\ the_winner_is # kXS_NOBODY_PLAYER
  /\ \E p \in Paths :
       {i \in Cells : \E k \in Slots : WinsPathId(i, k) = p}
         = {the_winpath[t] : t \in 1 .. TTTT_WIN_SIZE}
  /\ Cardinality({the_winpath[t] : t \in 1 .. TTTT_WIN_SIZE}) = TTTT_WIN_SIZE

\* C2: the cell sets read off the table, one per line id, are exactly the 76
\* straight lines of four cells of the 4x4x4 cube under cell i = (layer
\* i/16, row (i mod 16)/4, column i mod 4): every row, column, pillar, face
\* diagonal and space diagonal is the cell set of exactly one line id, and
\* no line id has any other cell set.
C2_LinesAreGeometric ==
  LET coord(i) == << i \div 16, (i % 16) \div 4, i % 4 >>
      Steps == {-1, 0, 1}
      Dirs == (Steps \X Steps \X Steps) \ {<< 0, 0, 0 >>}
      at(i, d, t) == << coord(i)[1] + t * d[1], coord(i)[2] + t * d[2],
                        coord(i)[3] + t * d[3] >>
      inCube(x) == \A n \in 1 .. 3 : x[n] \in 0 .. 3
      cell(x) == 16 * x[1] + 4 * x[2] + x[3]
      Starts == {sd \in (DOMAIN the_board) \X Dirs :
                   inCube(at(sd[1], sd[2], 3))}
      Geometric == {{cell(at(sd[1], sd[2], t)) : t \in 0 .. 3} : sd \in Starts}
      read(p) == {PathCells[p][t] : t \in 1 .. Len(PathCells[p])}
  IN  /\ Cardinality(Geometric) = TTTT_WINNING_PATHS_COUNT
      /\ {read(p) : p \in Paths} = Geometric
      /\ \A p, q \in Paths : read(p) = read(q) => p = q

\* a game has been won on the first row of the first layer, which is the
\* cell set the table gives for line id 0
C2_Witness ==
  /\ the_winner_is # kXS_NOBODY_PLAYER
  /\ \A t \in 1 .. TTTT_WIN_SIZE :
       /\ the_winpath[t] \div 16 = 0
       /\ (the_winpath[t] % 16) \div 4 = 0
       /\ the_winpath[t] % 4 = t - 1
  /\ {the_winpath[t] : t \in 1 .. TTTT_WIN_SIZE}
       = {PathCells[0][t] : t \in 1 .. Len(PathCells[0])}

\* C3: the value an evaluation returns is the sum, over the 76 line ids p,
\* of W[h][m] for the active matrix W, h and m being the numbers of human and
\* machine pieces of the evaluated board on the cells that list p; it is the
\* same whatever was evaluated before, and for the empty board it is
\* 76 x W[0][0].
C3_EvaluateIsWeightedLineSum ==
  op = "evaluate" =>
    LET board == ParseBoard(BoardStrings[arg])
        on(p) == {i \in Cells : \E k \in Slots : WinsPathId(i, k) = p}
        pieces(p, player) == Cardinality({i \in on(p) : board[i] = player})
        term(p) == the_weights[pieces(p, kXS_HUMAN_PLAYER) + 1]
                              [pieces(p, kXS_MACHINE_PLAYER) + 1]
        RECURSIVE sum(_)
        sum(n) == IF n = 0 THEN 0 ELSE term(n - 1) + sum(n - 1)
    IN  /\ ret = sum(TTTT_WINNING_PATHS_COUNT)
        /\ (\A i \in Cells : board[i] = kXS_NOBODY_PLAYER)
             => ret = TTTT_WINNING_PATHS_COUNT * the_weights[1][1]

\* a board string with pieces of both players is evaluated after a human move
\* was accepted, whose win detection left its own tallies behind
C3_Witness ==
  /\ op = "evaluate"
  /\ arg = 1
  /\ ret # 0
  /\ the_board[3] = kXS_HUMAN_PLAYER
  /\ \E p \in Paths : the_path_counts_mac[p] > 0

\* C4: when a human move or a machine move has just been accepted and the
\* winner flag is Human or Machine, the four stored winning cells are
\* distinct, in strictly ascending cell order, are exactly the cells of one
\* line id of the index, and all hold the winner's mark on the board.
C4_WinPathIsTheWinningLine ==
  (/\ op \in {"humanmove", "machinemove"}
   /\ ret # kXS_UNDEFINED_MOVE
   /\ the_winner_is # kXS_NOBODY_PLAYER)
  => LET stored == {TTTT_GetWinnerPath[t] : t \in 1 .. TTTT_WIN_SIZE}
     IN  /\ \A t \in 1 .. (TTTT_WIN_SIZE - 1) :
              TTTT_GetWinnerPath[t] < TTTT_GetWinnerPath[t + 1]
         /\ Cardinality(stored) = TTTT_WIN_SIZE
         /\ \E p \in Paths :
              stored = {i \in Cells : \E k \in Slots : WinsPathId(i, k) = p}
         /\ \A i \in stored : the_board[i] = the_winner_is

\* the machine has just completed the line 0,1,2,3
C4_Witness ==
  /\ op = "machinemove"
  /\ ret \in {0, 3}
  /\ the_winner_is = kXS_MACHINE_PLAYER
  /\ TTTT_GetWinnerPath = <<0, 1, 2, 3>>
  /\ \A i \in 0 .. 3 : the_board[i] = kXS_MACHINE_PLAYER

\* C5: after initialize, setting the board to the machine marker at cells
\* 0,1,2,3 and empty elsewhere makes the winner query answer Machine and the
\* winning-cells query answer 0,1,2,3.
C5_SetBoardReportsTheWinner ==
  (/\ op = "setboard"
   /\ calls = 1
   /\ BoardStrings[arg] = Pad(<<"O", "O", "O", "O">>))
  => /\ TTTT_GetWinner = kXS_MACHINE_PLAYER
     /\ TTTT_GetWinnerPath = <<0, 1, 2, 3>>

\* C6: for every valid board string s of 'X', 'O' and '.', setting the board
\* to s and then reading the board returns a string equal to s.
C6_SetBoardGetBoardRoundTrip ==
  (/\ op = "setboard"
   /\ \A n \in 1 .. TTTT_BOARD_POSITIONS :
        BoardStrings[arg][n] \in {"X", "O", "."})
  =>
    /\ TTTT_GetBoard.status = kTTTT_NoError
    /\ TTTT_GetBoard.pszGameBoard = BoardStrings[arg]

\* C7: a human move on a cell of 0..63 that is occupied, or made while the
\* winner flag is Human or Machine, returns the no-move sentinel
\* (kTTTT_InvalidMove at the API) and leaves the 64 cells, the winner flag
\* and the winning cells as they were.
C7_RejectedHumanMove ==
  [][(/\ op' = "humanmove"
      /\ arg' \in Cells
      /\ \/ the_board[arg'] # kXS_NOBODY_PLAYER
         \/ the_winner_is # kXS_NOBODY_PLAYER)
     => /\ ret' = kXS_UNDEFINED_MOVE
        /\ status' = kTTTT_InvalidMove
        /\ the_board' = the_board
        /\ the_winner_is' = the_winner_is
        /\ the_winpath' = the_winpath]_vars

\* a human move on an occupied cell of an undecided game has been refused
C7_Witness ==
  /\ op = "humanmove"
  /\ the_winner_is = kXS_NOBODY_PLAYER
  /\ the_board[arg] # kXS_NOBODY_PLAYER
  /\ ret = kXS_UNDEFINED_MOVE
  /\ status = kTTTT_InvalidMove

\* C8: undo of a cell of 0..63: on an empty cell it returns the no-move
\* sentinel and changes nothing; on an occupied cell, whoever owns it and
\* whatever the winner flag, it empties exactly that cell, leaves the other
\* 63 cells as they were and returns the cell.
C8_UndoClearsExactlyOneCell ==
  [][(op' = "undomove" /\ arg' \in Cells)
     => /\ the_board[arg'] = kXS_NOBODY_PLAYER
             => /\ ret' = kXS_UNDEFINED_MOVE
                /\ UNCHANGED << the_board, the_winner_is, the_winpath,
                                the_path_counts_mac, the_path_counts_human,
                                the_weights, randomized >>
        /\ the_board[arg'] # kXS_NOBODY_PLAYER
             => /\ ret' = arg'
                /\ the_board'[arg'] = kXS_NOBODY_PLAYER
                /\ \A i \in Cells \ {arg'} : the_board'[i] = the_board[i]]_vars

\* a machine piece of a decided game has been taken back
C8_Witness ==
  /\ op = "undomove"
  /\ ret = arg
  /\ ret \in Cells
  /\ the_winner_is = kXS_MACHINE_PLAYER
  /\ the_board[ret] = kXS_NOBODY_PLAYER
  /\ \E t \in 1 .. TTTT_WIN_SIZE : the_winpath[t] = ret

C10_DecidedIsAbsorbing ==
  [][(/\ the_winner_is # kXS_NOBODY_PLAYER
      /\ op' \in {"humanmove", "machinemove", "undomove", "setboard"})
     => /\ the_winner_is' = the_winner_is
        /\ op' \in {"humanmove", "machinemove"}
             => /\ ret' = kXS_UNDEFINED_MOVE
                /\ the_board' = the_board]_vars

\* the winning human move was undone, no complete line is left on the board,
\* and a human move on the emptied cell has been refused
C10_Witness ==
  /\ the_winner_is = kXS_HUMAN_PLAYER
  /\ checkforwinners(the_board, the_weights, PathCounts,
                     clearwinpath).aWinner = kXS_NOBODY_PLAYER
  /\ op = "humanmove"
  /\ the_board[arg] = kXS_NOBODY_PLAYER
  /\ ret = kXS_UNDEFINED_MOVE

\* C11: installing a weight matrix overwrites all 25 entries of the active
\* matrix and leaves the 64 cells, the winner flag and the winning cells as
\* they were; the matrix then stays until the next set-weights or
\* initialize, so every later evaluation is computed with it.
C11_SetWeightsReplacesTheMatrix ==
  [][/\ op' = "setweights"
          => /\ \A i, j \in 1 .. TTTT_WEIGHT_MATRIX_SIZE :
                  the_weights'[i][j] = WeightChoices[arg'][i][j]
             /\ DOMAIN the_weights' = 1 .. TTTT_WEIGHT_MATRIX_SIZE
             /\ the_board' = the_board
             /\ the_winner_is' = the_winner_is
             /\ the_winpath' = the_winpath
     /\ the_weights' # the_weights => op' \in {"setweights", "initialize"}
     /\ op' = "evaluate"
          => ret' = boardeval(ParseBoard(BoardStrings[arg']), the_weights,
                              clearpathcounts(PathCounts)).score]_vars

\* after the second matrix was installed the empty board evaluates to
\* 76 times its entry W[0][0] = 3
C11_Witness ==
  /\ op = "evaluate"
  /\ the_weights = test_weights
  /\ the_weights # default_weights
  /\ BoardStrings[arg] = Pad(<<>>)
  /\ ret = TTTT_WINNING_PATHS_COUNT * 3

C13_RejectedMachineMove ==
  [][(/\ op' = "machinemove"
      /\ the_winner_is # kXS_NOBODY_PLAYER)
     => /\ ret' = kXS_UNDEFINED_MOVE
        /\ fault' = "none"
        /\ the_board' = the_board
        /\ the_winner_is' = the_winner_is
        /\ the_winpath' = the_winpath
        /\ firstpass_stack' = firstpass_stack
        /\ bestmoves_stack' = bestmoves_stack]_vars

\* a randomized machine move of a game the human has won has been refused
C13_Witness ==
  /\ op = "machinemove"
  /\ randomized
  /\ the_winner_is = kXS_HUMAN_PLAYER
  /\ ret = kXS_UNDEFINED_MOVE
  /\ \E c \in Cells : the_board[c] = kXS_NOBODY_PLAYER

C16_BestMoveIsReadOnly ==
  [][op' = "bestmove"
     => /\ the_board' = the_board
        /\ the_winner_is' = the_winner_is
        /\ the_winpath' = the_winpath
        /\ the_weights' = the_weights
        /\ randomized' = randomized]_vars

\* the query for the human has advised an empty cell of a board that holds
\* pieces of both players, and the cell is still empty
C16_Witness ==
  /\ op = "bestmove"
  /\ arg = kXS_HUMAN_PLAYER
  /\ ret \in Cells
  /\ the_board[ret] = kXS_NOBODY_PLAYER
  /\ \E c, d \in Cells : /\ the_board[c] = kXS_HUMAN_PLAYER
                         /\ the_board[d] = kXS_MACHINE_PLAYER

\* C17: a human move or an undo called with a cell index outside 0..63 is
\* reported with the status kTTTT_InvalidArgumentOutOfRange, reads and
\* writes nothing outside the 64-cell board, and leaves the board and the
\* winner flag as they were.
C17_OutOfRangeCellIsReported ==
  [][(/\ op' \in {"humanmove", "undomove"}
      /\ arg' \notin Cells)
     => /\ status' = kTTTT_InvalidArgumentOutOfRange
        /\ fault' = "none"
        /\ the_board' = the_board
        /\ the_winner_is' = the_winner_is]_vars

\* C18: TTTT_SetBoard and TTTT_EvaluateBoardValue given a board string with
\* a character other than the human, machine and empty markers among its
\* first 64 return kTTTT_InvalidArgument and apply nothing: the game board
\* is unchanged.
C18_MalformedBoardStringIsRefused ==
  [][(/\ op' \in {"setboard", "evaluate"}
      /\ \E n \in 1 .. TTTT_BOARD_POSITIONS :
           BoardStrings[arg'][n] \notin {"X", "O", "."})
     => /\ status' = kTTTT_InvalidArgument
        /\ the_board' = the_board]_vars

\* C19: the flattened matrix of the command line option -w is installed
\* row-major: for every k in 0..24 the k-th integer is the entry
\* W[k div 5][k mod 5] of the matrix given to TTTT_SetHeuristicWeights.
C19_WeightsArgumentIsRowMajor ==
  [][(/\ op' = "setweights"
      /\ WeightChoices[arg'] = set_weightsmatrix(WeightsArgument))
     => \A k \in 0 .. (TTTT_WEIGHT_MATRIX_SIZE * TTTT_WEIGHT_MATRIX_SIZE - 1) :
          the_weights'[(k \div TTTT_WEIGHT_MATRIX_SIZE) + 1]
                      [(k % TTTT_WEIGHT_MATRIX_SIZE) + 1]
            = WeightsArgument[k + 1]]_vars

\* C20: when the win detection has run after an accepted move on a board
\* where a Human line and a Machine line are both complete, the winner is
\* the owner of the complete line with the largest line id and the stored
\* winning cells are the cells of that line.
C20_LastScannedLineWins ==
  (/\ op \in {"humanmove", "machinemove"}
   /\ ret # kXS_UNDEFINED_MOVE)
  => LET cells(p) == {i \in Cells : \E k \in Slots : WinsPathId(i, k) = p}
         complete(player) ==
           {p \in Paths : \A i \in cells(p) : the_board[i] = player}
         both == complete(kXS_HUMAN_PLAYER) \cup complete(kXS_MACHINE_PLAYER)
         last == CHOOSE p \in both : \A q \in both : q <= p
     IN  (/\ complete(kXS_HUMAN_PLAYER) # {}
          /\ complete(kXS_MACHINE_PLAYER) # {})
         => /\ the_winner_is = IF last \in complete(kXS_HUMAN_PLAYER)
                                 THEN kXS_HUMAN_PLAYER
                                 ELSE kXS_MACHINE_PLAYER
            /\ {the_winpath[t] : t \in 1 .. TTTT_WIN_SIZE} = cells(last)

\* the human has moved on a board set with the human line 4..7 (line id 1)
\* and the machine line 8..11 (line id 2), and the machine is the winner
C20_Witness ==
  /\ op = "humanmove"
  /\ ret = 0
  /\ \A i \in 4 .. 7 : the_board[i] = kXS_HUMAN_PLAYER
  /\ \A i \in 8 .. 11 : the_board[i] = kXS_MACHINE_PLAYER
  /\ the_winner_is = kXS_MACHINE_PLAYER
  /\ the_winpath = <<8, 9, 10, 11>>

C22_OnePlayerHasCompleteLines ==
  LET cells(p) == {c \in Cells : \E k \in Slots : WinsPathId(c, k) = p}
      complete(player) ==
        {p \in Paths : \A c \in cells(p) : the_board[c] = player}
  IN  complete(kXS_HUMAN_PLAYER) = {} \/ complete(kXS_MACHINE_PLAYER) = {}

\* the human has completed the line 35, 38, 41, 44 while the machine held three
\* pieces of a line whose fourth cell is empty, and the machine move asked
\* for next has been refused
C22_Witness ==
  LET cells(p) == {c \in Cells : \E k \in Slots : WinsPathId(c, k) = p}
  IN  /\ op = "machinemove"
      /\ ret = kXS_UNDEFINED_MOVE
      /\ the_winner_is = kXS_HUMAN_PLAYER
      /\ \A c \in {35, 38, 41, 44} : the_board[c] = kXS_HUMAN_PLAYER
      /\ \E p \in Paths :
           /\ Cardinality({c \in cells(p) :
                             the_board[c] = kXS_MACHINE_PLAYER}) = 3
           /\ Cardinality({c \in cells(p) :
                             the_board[c] = kXS_NOBODY_PLAYER}) = 1

\* C28: under the default weight matrix, whenever the winner is nobody and
\* some line holds three Machine pieces and one empty cell, a deterministic
\* machine move commits a cell that completes a Machine line, and the winner
\* flag becomes Machine on that move.
C28_MachineCompletesItsLine ==
  [][(/\ op' = "machinemove"
      /\ ~randomized
      /\ the_weights = default_weights
      /\ the_winner_is = kXS_NOBODY_PLAYER
      /\ LET cells(p) == {c \in Cells : \E k \in Slots : WinsPathId(c, k) = p}
         IN  \E p \in Paths :
               /\ Cardinality({c \in cells(p) :
                                 the_board[c] = kXS_MACHINE_PLAYER}) = 3
               /\ Cardinality({c \in cells(p) :
                                 the_board[c] = kXS_NOBODY_PLAYER}) = 1)
     => LET cells(p) == {c \in Cells : \E k \in Slots : WinsPathId(c, k) = p}
        IN  /\ the_winner_is' = kXS_MACHINE_PLAYER
            /\ \E p \in Paths :
                 /\ ret' \in cells(p)
                 /\ \A c \in cells(p) :
                      the_board'[c] = kXS_MACHINE_PLAYER]_vars

\* C24: for every line id p the human tally and the machine tally an
\* evaluation leaves are each between 0 and 4 and their sum is at most 4, so
\* that every lookup W[human tally][machine tally] is inside the 5x5 matrix:
\* for the tallies of the last evaluation of a call (those of the board
\* itself) and for those of the evaluation of every tentative machine piece
\* a scan started by the next call tries, the board having only empty, human
\* and machine cells.
C24_TalliesStayInsideTheMatrix ==
  LET inside(pc) ==
        \A p \in Paths :
          /\ pc.human[p] \in 0 .. TTTT_WIN_SIZE
          /\ pc.mac[p] \in 0 .. TTTT_WIN_SIZE
          /\ pc.human[p] + pc.mac[p] <= TTTT_WIN_SIZE
          /\ pc.human[p] + 1 \in 1 .. TTTT_WEIGHT_MATRIX_SIZE
          /\ pc.mac[p] + 1 \in 1 .. TTTT_WEIGHT_MATRIX_SIZE
  IN  /\ \A c \in Cells :
           the_board[c] \in {kXS_NOBODY_PLAYER, kXS_HUMAN_PLAYER,
                             kXS_MACHINE_PLAYER}
      /\ inside(PathCounts)
      /\ op \in {"humanmove", "machinemove"} /\ fault = "none"
           /\ ret # kXS_UNDEFINED_MOVE
           => PathCounts = boardeval(the_board, the_weights,
                                     PathCounts).pc
      /\ \A c \in Cells :
           Ready /\ the_board[c] = kXS_NOBODY_PLAYER
             => inside(futureboardscore(the_board, the_weights, PathCounts,
                                        c, kXS_MACHINE_PLAYER).pc)

\* the machine has put its piece on the fourth cell of the line on which
\* the human has three: the tallies of that line are 3 and 1
C24_Witness ==
  /\ op = "machinemove"
  /\ ret = 38
  /\ \E p \in Paths :
       /\ the_path_counts_human[p] = 3
       /\ the_path_counts_mac[p] = 1
  /\ \E p \in Paths : the_path_counts_mac[p] = 3

\* C25: in every state reached from initialize by human moves and machine
\* moves only (either mode, any weight matrix set beforehand), the winner
\* flag agrees with the board: it is Human exactly when some line holds four
\* Human pieces, Machine exactly when some line holds four Machine pieces,
\* and nobody exactly when no line is complete. Stated step by step: flag
\* and board agree before the first move of a game, initialize leaves them
\* agreeing, and every human move and machine move taken where they agree
\* leaves them agreeing.
C25_WinnerFlagAgreesWithTheBoard ==
  [][LET complete(board, player) ==
           \E p \in Paths :
             \A t \in 1 .. Len(PathCells[p]) :
               board[PathCells[p][t]] = player
         agree(board, winner) ==
           /\ winner \in {kXS_NOBODY_PLAYER, kXS_HUMAN_PLAYER,
                          kXS_MACHINE_PLAYER}
           /\ winner = kXS_HUMAN_PLAYER
                <=> complete(board, kXS_HUMAN_PLAYER)
           /\ winner = kXS_MACHINE_PLAYER
                <=> complete(board, kXS_MACHINE_PLAYER)
           /\ winner = kXS_NOBODY_PLAYER
                <=> (~complete(board, kXS_HUMAN_PLAYER)
                     /\ ~complete(board, kXS_MACHINE_PLAYER))
     IN  /\ calls = 0 => agree(the_board, the_winner_is)
         /\ op' = "initialize" => agree(the_board', the_winner_is')
         /\ (op' \in {"humanmove", "machinemove"}
             /\ agree(the_board, the_winner_is))
              => agree(the_board', the_winner_is')]_vars

\* a randomized machine move under another matrix than the default one has
\* completed a machine line and left the winner flag Machine
C25_Witness ==
  LET cells(p) == {c \in Cells : \E k \in Slots : WinsPathId(c, k) = p}
  IN  /\ op = "machinemove"
      /\ randomized
      /\ the_weights # default_weights
      /\ the_winner_is = kXS_MACHINE_PLAYER
      /\ \E p \in Paths :
           /\ ret \in cells(p)
           /\ \A c \in cells(p) : the_board[c] = kXS_MACHINE_PLAYER
      /\ \A p \in Paths :
           \E c \in cells(p) : the_board[c] # kXS_HUMAN_PLAYER

\* C27: with winner nobody, at least one empty cell and randomized mode off,
\* the cell a machine move commits is the cell the best-move query for the
\* Machine player (TTTT_GetBestMove) returns on the same board and weight
\* matrix.
C27_RoteMoveIsTheBestMoveQuery ==
  [][(/\ op' = "machinemove"
      /\ ~randomized
      /\ the_winner_is = kXS_NOBODY_PLAYER
      /\ \E c \in Cells : the_board[c] = kXS_NOBODY_PLAYER)
     => \E query \in {choosemove(the_board, the_weights, PathCounts,
                                 kXS_MACHINE_PLAYER)} :
          /\ ret' = query.bestMove
          /\ ret' \in Cells
               => the_board' =
                    [the_board EXCEPT ![ret'] = kXS_MACHINE_PLAYER]]_vars

\* a deterministic machine move has answered a human piece, under another
\* matrix than the default one, with the cell the query gives for the board
\* before the move
C27_Witness ==
  /\ op = "machinemove"
  /\ ~randomized
  /\ fault = "none"
  /\ ret \in Cells
  /\ the_weights # default_weights
  /\ \E c \in Cells : the_board[c] = kXS_HUMAN_PLAYER
  /\ the_board[ret] = kXS_MACHINE_PLAYER
  /\ choosemove([the_board EXCEPT ![ret] = kXS_NOBODY_PLAYER], the_weights,
                PathCounts, kXS_MACHINE_PLAYER).bestMove = ret

\* C30: initialize, called in any state, sets all 64 cells to empty, the
\* winner flag to nobody, the four winning cells to 0, the active weight
\* matrix to the default matrix and both tie-break stacks to empty, and
\* leaves the randomized-mode flag as it was.
C30_InitializeResetsAllButTheMode ==
  [][op' = "initialize"
     => /\ \A c \in Cells : the_board'[c] = kXS_NOBODY_PLAYER
        /\ the_winner_is' = kXS_NOBODY_PLAYER
        /\ \A t \in 1 .. TTTT_WIN_SIZE : the_winpath'[t] = 0
        /\ \A i, j \in 1 .. TTTT_WEIGHT_MATRIX_SIZE :
             the_weights'[i][j] = default_weights[i][j]
        /\ Len(firstpass_stack') = 0
        /\ Len(bestmoves_stack') = 0
        /\ randomized' = randomized]_vars

\* initialize has been called after randomized mode was switched on: the
\* engine is reset and the mode is still on
C30_Witness ==
  /\ op = "initialize"
  /\ randomized
  /\ the_board = initboard
  /\ the_weights = default_weights
  /\ the_winner_is = kXS_NOBODY_PLAYER

\* C23: in a randomized machine move with winner nobody, stack B holds at
\* least one move where the random draw is taken, for every board and every
\* weight matrix: the draw is never taken modulo zero and a cell is always
\* chosen.
C23_StackBIsNeverEmptyAtTheDraw ==
  [][(/\ op' = "machinemove"
      /\ randomized
      /\ the_winner_is = kXS_NOBODY_PLAYER)
     => \E scan \in {RandomizedScan(the_board, the_weights, PathCounts, 0,
                                    TTTT_VERY_BIG_BOARDVALUE,
                                    kXS_UNDEFINED_MOVE, firstpass_stack)} :
          /\ Len(DrainIntoBestMoves(scan.st, bestmoves_stack)) >= 1
          /\ fault' # "div_by_zero"
          /\ ret' \in Cells]_vars

\* C26: every write a machine move makes to the board is to a cell index in
\* 0..63 whose cell was empty, for every board (one set by set-board, one
\* without an empty cell) and every weight matrix: when no empty cell can be
\* chosen the move returns the no-move sentinel -1 and writes nothing.
C26_MachineMoveWritesInsideTheBoard ==
  [][op' = "machinemove"
     => /\ fault' # "oob_write"
        /\ \/ /\ ret' \in Cells
              /\ the_board[ret'] = kXS_NOBODY_PLAYER
              /\ the_board' = [the_board EXCEPT ![ret'] = kXS_MACHINE_PLAYER]
           \/ /\ ret' = kXS_UNDEFINED_MOVE
              /\ the_board' = the_board]_vars

\* C29: in interactive play the machine moves only in response to an
\* accepted human move: a human entry the engine rejects (occupied cell) is
\* not followed by a machine move, so that the numbers of human and machine
\* pieces on the board never differ by more than one.
C29_MachineAnswersAcceptedMovesOnly ==
  [][/\ (op = "humanmove" /\ status # kTTTT_NoError)
          => op' # "machinemove"
     /\ LET pieces(player) ==
              Cardinality({c \in Cells : the_board'[c] = player})
        IN  /\ pieces(kXS_HUMAN_PLAYER) - pieces(kXS_MACHINE_PLAYER) <= 1
            /\ pieces(kXS_MACHINE_PLAYER) - pieces(kXS_HUMAN_PLAYER) <= 1]_vars

====
